---------------------------- MODULE Spec2Model ----------------------------
(***************************************************************************)
(* A model of the Ollama backend adapter (OllamaContentGenerator): the     *)
(* request translator, the tool-call deduplicator, the payload governor,   *)
(* the NDJSON streaming decoder and the chat/generate call dispatch.       *)
(*                                                                         *)
(* Texts are sequences of one-character strings, so that concatenation,    *)
(* trimming and splitting are computed and not assumed.  The module holds  *)
(* several specifications over one set of variables; each specification    *)
(* drives one component and leaves the variables of the others idle.       *)
(***************************************************************************)
EXTENDS Integers, Sequences, FiniteSets, TLC

VARIABLES
    phase,          \* which component this behaviour drives
    (* request translator: buildChatMessages *)
    contents,       \* the conversation history handed to buildChatMessages
    messages,       \* the backend messages built from it
    msgTurn,        \* ghost: for each built message, the index of its turn
    chatPc,         \* "ready" | "built"
    (* response normalizer and tool-call deduplicator *)
    api,            \* "generate" | "chat": which normalizer is applied
    ollamaResponse, \* the backend record to normalize
    fullPromptText, \* the prompt text handed over for the usage estimate
    geminiResponse, \* the unified response built from the record
    normPc,         \* "ready" | "done"
    (* payload governor *)
    govKind,        \* "messages" | "text": what is governed
    govIn,          \* the message list or the text handed to the governor
    govOut,         \* what the governor returns
    govPc,          \* "ready" | "done"
    (* streaming decoder: callGenerateAPIStream and callChatAPIStream *)
    streamApi,      \* "generate" | "chat"
    streamBody,     \* ghost: the lines the backend sends, in order
    terminated,     \* ghost: the last line of the body ends with a newline
    wire,           \* the part of the response body not yet read
    buffer,         \* the decoder's buffer: the trailing partial line
    lines,          \* the complete lines of the current chunk not yet handled
    events,         \* the events yielded so far, each with its source line
    totalResponse,  \* the text accumulated by callGenerateAPIStream
    streamPc,       \* "read" | "lines" | "done"
    yielded,        \* the generator is suspended at the yield of the line just handled
    released,       \* how many times reader.releaseLock() has been called
    streamExit,     \* how the generator ended: "none" | "eof" | "readError" | "return"
    doneSeen,       \* ghost: a record whose done flag is set has been handled
    (* the facade: generateContent on one adapter instance *)
    config,         \* this.config: enableChatApi, timeout, temperature, requestContextSize
    request,        \* the request of the call in progress (or of the last call)
    callPc,         \* "idle" | "chat" | "generate": the request awaited
    sent,           \* the backend requests the call has sent, in order
    chatOutcome,    \* how the chat request of the call ended, "none" if none has
    callResult,         \* what the call gave its caller
    callN,          \* ghost: the calls started on this instance
    timeoutsInARow, \* ghost: the latest finished calls, in a row, that met a timeout
    prevOk,         \* ghost: the previous call returned a response
    failedBefore,   \* ghost: some earlier call on this instance met a failure
    (* context-length resolution: the cache of ollamaTokenLimits and /api/show *)
    ctxCache,       \* ollamaContextLengthCache: for each model its value, or undefined
    adapters,       \* the models of the adapters constructed so far, in order
    inflight,       \* the /api/show requests awaiting their answer, by model
    showCount,      \* ghost: the /api/show requests sent so far
    fromShow,       \* ghost: per model, the cache holds a value read from model_info
    sentAfter,      \* ghost: per model, the requests sent while fromShow held
    completed,      \* ghost: per model, some resolution has returned
    lastShow,       \* ghost: per model, how its latest /api/show request ended
    batch,          \* ghost: per model, the values written by the resolutions that
                    \* overlap (since the model last had no request in flight)
    (* model discovery: extractContextLength *)
    modelInfo,      \* the /api/show response handed to extractContextLength
    contextLength,  \* the number extractContextLength returns
    discPc          \* "ready" | "done"

chatVars == <<contents, messages, msgTurn, chatPc>>
normVars == <<api, ollamaResponse, fullPromptText, geminiResponse, normPc>>

govVars == <<govKind, govIn, govOut, govPc>>

streamVars == <<streamApi, streamBody, terminated, wire, buffer, lines, events, totalResponse,
                streamPc, yielded, released, streamExit, doneSeen>>

callVars == <<config, request, callPc, sent, chatOutcome, callResult, callN,
              timeoutsInARow, prevOk, failedBefore>>

ctxVars == <<ctxCache, adapters, inflight, showCount, fromShow, sentAfter, completed,
             lastShow, batch>>

discVars == <<modelInfo, contextLength, discPc>>

vars == <<phase, chatVars, normVars, govVars, streamVars, callVars, ctxVars, discVars>>

\* the value of a variable that a specification does not drive
Idle == "idle"
ChatIdle == contents = Idle /\ messages = Idle /\ msgTurn = Idle /\ chatPc = Idle
NormIdle ==
    /\ api = Idle /\ ollamaResponse = Idle /\ fullPromptText = Idle
    /\ geminiResponse = Idle /\ normPc = Idle
GovIdle == govKind = Idle /\ govIn = Idle /\ govOut = Idle /\ govPc = Idle

StreamIdle ==
    /\ streamApi = Idle /\ streamBody = Idle /\ terminated = Idle
    /\ wire = Idle /\ buffer = Idle
    /\ lines = Idle /\ events = Idle /\ totalResponse = Idle /\ streamPc = Idle
    /\ yielded = Idle /\ released = Idle /\ streamExit = Idle /\ doneSeen = Idle

CallIdle ==
    /\ config = Idle /\ request = Idle /\ callPc = Idle /\ sent = Idle
    /\ chatOutcome = Idle /\ callResult = Idle /\ callN = Idle
    /\ timeoutsInARow = Idle /\ prevOk = Idle /\ failedBefore = Idle

CtxIdle ==
    /\ ctxCache = Idle /\ adapters = Idle /\ inflight = Idle /\ showCount = Idle
    /\ fromShow = Idle /\ sentAfter = Idle /\ completed = Idle /\ lastShow = Idle
    /\ batch = Idle

DiscIdle == modelInfo = Idle /\ contextLength = Idle /\ discPc = Idle

\* what each specification leaves alone
ChatOthersIdle == NormIdle /\ GovIdle /\ StreamIdle /\ CallIdle /\ CtxIdle /\ DiscIdle
ChatFrame == UNCHANGED <<phase, normVars, govVars, streamVars, callVars, ctxVars, discVars>>
NormOthersIdle == ChatIdle /\ GovIdle /\ StreamIdle /\ CallIdle /\ CtxIdle /\ DiscIdle
NormFrame == UNCHANGED <<phase, chatVars, govVars, streamVars, callVars, ctxVars, discVars>>
GovOthersIdle == ChatIdle /\ NormIdle /\ StreamIdle /\ CallIdle /\ CtxIdle /\ DiscIdle
GovFrame == UNCHANGED <<phase, chatVars, normVars, streamVars, callVars, ctxVars, discVars>>
StreamOthersIdle == ChatIdle /\ NormIdle /\ GovIdle /\ CallIdle /\ CtxIdle /\ DiscIdle
StreamFrame == UNCHANGED <<phase, chatVars, normVars, govVars, callVars, ctxVars, discVars>>
CallOthersIdle == ChatIdle /\ NormIdle /\ GovIdle /\ StreamIdle /\ CtxIdle /\ DiscIdle
CallFrame == UNCHANGED <<phase, chatVars, normVars, govVars, streamVars, ctxVars, discVars>>
CtxOthersIdle == ChatIdle /\ NormIdle /\ GovIdle /\ StreamIdle /\ CallIdle /\ DiscIdle
CtxFrame == UNCHANGED <<phase, chatVars, normVars, govVars, streamVars, callVars, discVars>>
DiscOthersIdle == ChatIdle /\ NormIdle /\ GovIdle /\ StreamIdle /\ CallIdle /\ CtxIdle
DiscFrame == UNCHANGED <<phase, chatVars, normVars, govVars, streamVars, callVars, ctxVars>>

-----------------------------------------------------------------------------
(* Texts *)

\* a text of the program: a JavaScript string, one element per character
EmptyText == <<>>

Whitespace == {" "}

RECURSIVE TrimStart(_)
\* String.prototype.trim, leading side
TrimStart(t) ==
    IF t = <<>> THEN <<>>
    ELSE IF Head(t) \in Whitespace THEN TrimStart(Tail(t)) ELSE t

RECURSIVE TrimEnd(_)
\* String.prototype.trim, trailing side
TrimEnd(t) ==
    IF t = <<>> THEN <<>>
    ELSE IF t[Len(t)] \in Whitespace THEN TrimEnd(SubSeq(t, 1, Len(t) - 1)) ELSE t

\* String.prototype.trim
Trim(t) == TrimEnd(TrimStart(t))

\* JavaScript truthiness of a string
Truthy(t) == t # <<>>

-----------------------------------------------------------------------------
(* Request translator: buildChatMessages *)

\* bounds of the conversation histories that are enumerated
MaxTurns == 1
MaxParts == 2

\* functionResponse.response as the code reads it: absent, a string, or an
\* object with optional output and error fields
NoResponse  == [rk |-> "absent", str |-> <<>>, output |-> <<>>, error |-> <<>>]
StrResponse(s) == [rk |-> "string", str |-> s, output |-> <<>>, error |-> <<>>]
ObjResponse(o, e) == [rk |-> "object", str |-> <<>>, output |-> o, error |-> e]

Responses ==
    { NoResponse, StrResponse(<<"r">>), ObjResponse(<<"o">>, <<>>),
      ObjResponse(<<>>, <<"e">>), ObjResponse(<<>>, <<>>) }

\* a Part of the unified request: an object with the optional fields text,
\* functionCall and functionResponse
NoCall == [name |-> "", id |-> ""]
TextPart(t) == [hasText |-> TRUE, text |-> t, hasCall |-> FALSE, call |-> NoCall,
                hasResp |-> FALSE, resp |-> NoResponse]
CallPart(c) == [hasText |-> FALSE, text |-> <<>>, hasCall |-> TRUE, call |-> c,
                hasResp |-> FALSE, resp |-> NoResponse]
RespPart(r) == [hasText |-> FALSE, text |-> <<>>, hasCall |-> FALSE, call |-> NoCall,
                hasResp |-> TRUE, resp |-> r]

\* the parts of the enumerated histories: each carries exactly one of text,
\* tool call, tool result
Parts ==
    { TextPart(<<"a">>), TextPart(<<" ">>), CallPart([name |-> "f", id |-> "c1"]) }
    \cup { RespPart(r) : r \in Responses }

RECURSIVE SeqsUpTo(_, _)
\* all sequences over S of length at most n
SeqsUpTo(S, n) ==
    IF n = 0 THEN {<<>>}
    ELSE LET shorter == SeqsUpTo(S, n - 1)
         IN  shorter \cup { Append(s, x) : s \in {q \in shorter : Len(q) = n - 1}, x \in S }

Turns == [role : {"user", "model"}, parts : SeqsUpTo(Parts, MaxParts)]

\* JSON.stringify of a response object: never empty
StringifyResponse(r) == <<"{">> \o r.output \o r.error \o <<"}">>

ErrorPrefix == <<"E", "r", "r", "o", "r", ":", " ">>

\* the text a functionResponse part adds to textContent
ResponseText(r) ==
    IF r.rk = "absent" \/ (r.rk = "string" /\ ~Truthy(r.str)) THEN <<>>
    ELSE IF r.rk = "string" THEN r.str
    ELSE IF Truthy(r.output) THEN r.output
    ELSE IF Truthy(r.error) THEN ErrorPrefix \o r.error
    ELSE StringifyResponse(r)

\* the accumulators of one turn of the loop in buildChatMessages
TurnAcc0 == [textContent |-> <<>>, functionCalls |-> <<>>, hasFunctionResponse |-> FALSE]

\* one iteration of the inner loop over content.parts
PartStep(acc, part) ==
    IF part.hasText /\ Truthy(part.text)
    THEN [acc EXCEPT !.textContent = @ \o part.text]
    ELSE IF part.hasCall
    THEN [acc EXCEPT !.functionCalls =
              Append(@, [id |-> IF part.call.id # "" THEN part.call.id ELSE "call_generated",
                         name |-> part.call.name])]
    ELSE IF part.hasResp
    THEN [acc EXCEPT !.hasFunctionResponse = TRUE,
                     !.textContent = @ \o ResponseText(part.resp)]
    ELSE acc

RECURSIVE PartsLoop(_, _)
PartsLoop(acc, parts) ==
    IF parts = <<>> THEN acc ELSE PartsLoop(PartStep(acc, Head(parts)), Tail(parts))

\* the role given to a function-response turn
ToolRoleAsUser == "user"
ToolRole == "tool"

\* the messages one turn contributes: none or one
TurnMessages(content) ==
    LET acc == PartsLoop(TurnAcc0, content.parts)
        text == Trim(acc.textContent)
    IN  IF acc.hasFunctionResponse
        THEN IF Truthy(text)
             THEN << [role |-> ToolRole, content |-> text, tool_calls |-> <<>>] >>
             ELSE <<>>
        ELSE IF Truthy(text) \/ Len(acc.functionCalls) > 0
             THEN << [role |-> IF content.role = "model" THEN "assistant" ELSE "user",
                      content |-> text, tool_calls |-> acc.functionCalls] >>
             ELSE <<>>

RECURSIVE BuildFrom(_, _)
\* buildChatMessages from turn i on: the messages, each with the index of its turn
BuildFrom(cs, i) ==
    IF i > Len(cs) THEN <<>>
    ELSE LET ms == TurnMessages(cs[i])
         IN  [k \in 1..Len(ms) |-> [turn |-> i, msg |-> ms[k]]] \o BuildFrom(cs, i + 1)

\* buildChatMessages
buildChatMessages(cs) ==
    LET tagged == BuildFrom(cs, 1) IN [k \in 1..Len(tagged) |-> tagged[k].msg]

buildChatMessagesTurns(cs) ==
    LET tagged == BuildFrom(cs, 1) IN [k \in 1..Len(tagged) |-> tagged[k].turn]

InitChat ==
    /\ phase = "chat"
    /\ contents = <<>>
    /\ messages = <<>>
    /\ msgTurn = <<>>
    /\ chatPc = "ready"
    /\ ChatOthersIdle

\* the caller appends a turn to the conversation history of its request
AddTurn ==
    /\ phase = "chat"
    /\ chatPc = "ready"
    /\ Len(contents) < MaxTurns
    /\ \E turn \in Turns : contents' = Append(contents, turn)
    /\ UNCHANGED <<messages, msgTurn, chatPc>>
    /\ ChatFrame

\* a call of buildChatMessages(contents)
BuildChat ==
    /\ phase = "chat"
    /\ chatPc = "ready"
    /\ messages' = buildChatMessages(contents)
    /\ msgTurn' = buildChatMessagesTurns(contents)
    /\ chatPc' = "built"
    /\ UNCHANGED contents
    /\ ChatFrame

NextChat == AddTurn \/ BuildChat

SpecChat == InitChat /\ [][NextChat]_vars

\* a turn carries a tool result
HasToolResult(content) == \E k \in 1..Len(content.parts) : content.parts[k].hasResp

\* the messages built from turn i
MessagesOfTurn(i) == { messages[k] : k \in {j \in 1..Len(messages) : msgTurn[j] = i} }

\* C1 (as stated): in chat mode every turn that carries a functionResponse
\* part is translated to a message with role 'tool' and never to one with
\* role 'user'.
C1_AsStated ==
    chatPc = "built" =>
        \A i \in 1..Len(contents) :
            HasToolResult(contents[i]) =>
                /\ \E m \in MessagesOfTurn(i) : m.role = "tool"
                /\ \A m \in MessagesOfTurn(i) : m.role # "user"

\* C1 (amended): a turn that carries a functionResponse part yields at most
\* one message; the message has role 'tool' (never 'user' or 'assistant') and
\* exists exactly when the text collected from the turn is not blank.
C1_ToolRole ==
    chatPc = "built" =>
        \A i \in 1..Len(contents) :
            HasToolResult(contents[i]) =>
                LET text == Trim(PartsLoop(TurnAcc0, contents[i].parts).textContent)
                    n == Cardinality({k \in 1..Len(messages) : msgTurn[k] = i})
                IN  /\ \A m \in MessagesOfTurn(i) : m.role = "tool"
                    /\ n = (IF Truthy(text) THEN 1 ELSE 0)

\* a tool-result turn with non-blank text has been translated
C1_Witness ==
    /\ chatPc = "built"
    /\ \E i \in 1..Len(contents) :
          /\ HasToolResult(contents[i])
          /\ Len(contents[i].parts) > 1
          /\ \E m \in MessagesOfTurn(i) : m.role = "tool"

-----------------------------------------------------------------------------
(* Response normalizer and tool-call deduplicator *)

\* bound of the tool-call lists that are enumerated
MaxCalls == 2

\* estimateTokenCount: one token for every 4 characters, rounded up
CharsPerToken == 4
estimateTokenCount(text) == IF ~Truthy(text) THEN 0 ELSE (Len(text) + CharsPerToken - 1) \div CharsPerToken

\* an argument object: its key/value pairs in insertion order
KV(k, v) == [k |-> k, v |-> v]
ArgObjects ==
    { <<>>, <<KV("a", "1")>>, <<KV("a", "1"), KV("b", "2")>>, <<KV("b", "2"), KV("a", "1")>> }

\* function.arguments on the wire: a structured object, or a string that is
\* the JSON text of an object (wellFormed) or no JSON at all
ObjArgs(kv) == [form |-> "object", kv |-> kv, wellFormed |-> TRUE]
StrArgs(kv) == [form |-> "string", kv |-> kv, wellFormed |-> TRUE]
BadStrArgs  == [form |-> "string", kv |-> <<>>, wellFormed |-> FALSE]

WireArgs == { ObjArgs(kv) : kv \in ArgObjects } \cup { StrArgs(<<KV("a", "1"), KV("b", "2")>>), BadStrArgs }

ToolCalls ==
    [id : {""}, name : {"f", "g"}, arguments : WireArgs]
    \cup { [id |-> "c1", name |-> "f", arguments |-> ObjArgs(<<KV("a", "1")>>)] }

\* the try/catch around JSON.parse: the parsed object, {} when parsing throws
ParseArgs(arguments) ==
    IF arguments.form = "string" /\ ~arguments.wellFormed THEN <<>> ELSE arguments.kv

RECURSIVE JSONStringify(_)
\* JSON.stringify of an argument object: the pairs in insertion order
JSONStringify(kv) ==
    IF kv = <<>> THEN <<>>
    ELSE <<Head(kv).k, ":", Head(kv).v>> \o
         (IF Len(kv) > 1 THEN <<",">> ELSE <<>>) \o JSONStringify(Tail(kv))

\* `${toolCall.function.name}:${JSON.stringify(args)}`
callSignature(name, args) == <<name, ":", "{">> \o JSONStringify(args) \o <<"}">>

\* the text part, were the text trimmed on the way (a faulty variant)
TextOutTrimmed(t) == [kind |-> "text", text |-> Trim(t), id |-> "", name |-> "", args |-> <<>>]
\* parts.push({ text })
TextOut(t) == [kind |-> "text", text |-> t, id |-> "", name |-> "", args |-> <<>>]
CallOut(id, name, args) ==
    [kind |-> "functionCall", text |-> <<>>, id |-> id, name |-> name, args |-> args]

RECURSIVE DedupLoop(_, _, _)
\* the loop over the tool calls: seenCalls and the parts pushed so far
DedupLoop(calls, seenCalls, parts) ==
    IF calls = <<>> THEN parts
    ELSE LET toolCall == Head(calls)
             args == ParseArgs(toolCall.arguments)
             sig == callSignature(toolCall.name, args)
         IN  IF sig \in seenCalls
             THEN DedupLoop(Tail(calls), seenCalls, parts)
             ELSE DedupLoop(Tail(calls), seenCalls \cup {sig},
                     Append(parts,
                         CallOut(IF toolCall.id # "" THEN toolCall.id ELSE "call_generated",
                                 toolCall.name, args)))

\* a backend record, of /api/generate or /api/chat.  text is `response` or
\* `message.content`; a count of 0 stands for an absent count (the code reads
\* both with ||); callsAt tells where the tool_calls array is
Record(text, done, callsAt, calls, pec, ec) ==
    [text |-> text, done |-> done, callsAt |-> callsAt, tool_calls |-> calls,
     prompt_eval_count |-> pec, eval_count |-> ec]

\* the tool calls the normalizer reads
ToolCallsRead(a, r) ==
    IF a = "generate"
    THEN IF r.callsAt = "response" THEN r.tool_calls ELSE <<>>
    ELSE IF r.callsAt \in {"message", "response"} THEN r.tool_calls ELSE <<>>

\* the prompt token count: the chat normalizer does not estimate
PromptTokens(a, r, prompt) ==
    IF r.prompt_eval_count # 0 THEN r.prompt_eval_count
    ELSE IF a = "generate" /\ prompt.given THEN estimateTokenCount(prompt.text) ELSE 0

\* ollamaToGeminiResponse (a = "generate") and ollamaChatToGeminiResponse
\* (a = "chat")
ToGeminiResponse(a, r, prompt) ==
    LET promptTokenCount == PromptTokens(a, r, prompt)
        candidatesTokenCount ==
            IF r.eval_count # 0 THEN r.eval_count ELSE estimateTokenCount(r.text)
        textParts == IF Truthy(r.text) THEN <<TextOut(r.text)>> ELSE <<>>
    IN  [parts |-> DedupLoop(ToolCallsRead(a, r), {}, textParts),
         role |-> "model",
         finishReason |-> IF r.done THEN "STOP" ELSE "undefined",
         promptTokenCount |-> promptTokenCount,
         candidatesTokenCount |-> candidatesTokenCount,
         totalTokenCount |-> promptTokenCount + candidatesTokenCount]

NormRecords ==
    { Record(t, d, at, cs, pec, ec) :
        t \in {<<>>, <<"h", "e", "l", "l", "o">>}, d \in BOOLEAN,
        at \in {"response"}, cs \in SeqsUpTo(ToolCalls, MaxCalls),
        pec \in {0}, ec \in {0, 3} }
    \cup
    { Record(<<"h", "i">>, TRUE, at, <<>>, pec, 0) :
        at \in {"none", "message", "response"}, pec \in {0, 7} }

Prompts == { [given |-> FALSE, text |-> <<>>], [given |-> TRUE, text |-> <<"2", "+", "2", "?", " ">>] }

InitNorm ==
    /\ phase = "norm"
    /\ api \in {"generate", "chat"}
    /\ ollamaResponse \in NormRecords
    /\ (api = "generate" => ollamaResponse.callsAt # "message")
    /\ fullPromptText \in Prompts
    /\ geminiResponse = Idle
    /\ normPc = "ready"
    /\ NormOthersIdle

\* a call of ollamaToGeminiResponse or ollamaChatToGeminiResponse
Normalize ==
    /\ phase = "norm"
    /\ normPc = "ready"
    /\ geminiResponse' = ToGeminiResponse(api, ollamaResponse, fullPromptText)
    /\ normPc' = "done"
    /\ UNCHANGED <<api, ollamaResponse, fullPromptText>>
    /\ NormFrame

NextNorm == Normalize

SpecNorm == InitNorm /\ [][NextNorm]_vars

\* two argument objects hold the same pairs, in whatever order
SameArgs(kv1, kv2) ==
    {kv1[i] : i \in 1..Len(kv1)} = {kv2[i] : i \in 1..Len(kv2)}

\* C3: two tool calls of one response with the same function name and the
\* same arguments, the keys in whatever order, normalize to exactly one
\* functionCall part.
C3_OneCallPerSignature ==
    normPc = "done" =>
        LET calls == ToolCallsRead(api, ollamaResponse)
            parts == geminiResponse.parts
        IN  \A i, j \in 1..Len(calls) :
                (/\ i < j
                 /\ calls[i].name = calls[j].name
                 /\ SameArgs(ParseArgs(calls[i].arguments), ParseArgs(calls[j].arguments)))
                => Cardinality({ k \in 1..Len(parts) :
                                   /\ parts[k].kind = "functionCall"
                                   /\ parts[k].name = calls[i].name
                                   /\ SameArgs(parts[k].args, ParseArgs(calls[i].arguments)) }) = 1

\* ceil(n / 4): the least k with 4 * k >= n
CeilQuarter(n) == CHOOSE k \in 0..n : 4 * k >= n /\ (k = 0 \/ 4 * (k - 1) < n)

\* C20: in every normalized response, in chat and in simple mode,
\* promptTokenCount is prompt_eval_count when reported and otherwise
\* ceil(length of the full prompt text / 4), candidatesTokenCount is
\* eval_count when reported and otherwise ceil(length of the completion
\* text / 4), and totalTokenCount is their sum.
C20_UsageCounts ==
    (phase = "norm" /\ normPc = "done" /\ fullPromptText.given) =>
        LET r == ollamaResponse
            p == IF r.prompt_eval_count # 0 THEN r.prompt_eval_count
                 ELSE CeilQuarter(Len(fullPromptText.text))
            c == IF r.eval_count # 0 THEN r.eval_count ELSE CeilQuarter(Len(r.text))
        IN  /\ geminiResponse.promptTokenCount = p
            /\ geminiResponse.candidatesTokenCount = c
            /\ geminiResponse.totalTokenCount = p + c

-----------------------------------------------------------------------------
(* Payload governor: optimizeConversationForRequestSize and                *)
(* truncateContentForRequestSize.  The governor reads of a text only the   *)
(* length of each line and whether the line matches one of its patterns,   *)
(* so a governed text is the sequence of its lines, each with an identity, *)
(* its length and its pattern flag; ''.split('\n') is one empty line.      *)

\* bound of the message lists that are enumerated
MaxMsgs == 6

MAX_REQUEST_SIZE == 18000
ShortLine == 100
RecentMessages == 5
RecentLines == 10
FallbackMessages == 2
MarkerLength == 52

Line(id, len, pat) == [id |-> id, len |-> len, pat |-> pat, marker |-> FALSE]
EmptyLine == Line("empty", 0, FALSE)
\* the line '[Content truncated to fit model request size limits]'
MarkerLine == [id |-> "marker", len |-> MarkerLength, pat |-> FALSE, marker |-> TRUE]

RECURSIVE SumLen(_)
SumLen(ls) == IF ls = <<>> THEN 0 ELSE Head(ls).len + SumLen(Tail(ls))

\* content.length: the lines and the newlines between them
Length(text) == SumLen(text) + (Len(text) - 1)

\* array.join('\n') as a text: joining no line gives the empty string
Join(ls) == IF ls = <<>> THEN <<EmptyLine>> ELSE ls

\* the first n elements, array.slice(0, n) (a faulty variant)
SliceFirst(s, n) == IF Len(s) <= n THEN s ELSE SubSeq(s, 1, n)
\* array.slice(-n)
SliceLast(s, n) == IF Len(s) <= n THEN s ELSE SubSeq(s, Len(s) - n + 1, Len(s))

\* importantPatterns.some(pattern => pattern.test(line)) || line.length < 100
Important(line) == line.pat \/ line.len < ShortLine

RECURSIVE ImportantLines(_)
\* the lines pushed to importantLines, in order
ImportantLines(s) ==
    IF s = <<>> THEN <<>>
    ELSE (IF Important(Head(s)) THEN <<Head(s)>> ELSE <<>>) \o ImportantLines(Tail(s))

RECURSIVE RegularLines(_)
\* the lines pushed to regularLines, in order
RegularLines(s) ==
    IF s = <<>> THEN <<>>
    ELSE (IF Important(Head(s)) THEN <<>> ELSE <<Head(s)>>) \o RegularLines(Tail(s))

\* the comparison that lets a request pass unchanged, made strict (a faulty variant)
WithinLimitStrict(size, maxSize) == size < maxSize
\* content.length <= maxSize, currentSize <= maxSize
WithinLimit(size, maxSize) == size <= maxSize

RECURSIVE AddRegular(_, _, _)
\* the loop that appends regular lines while the result stays within 90% of
\* maxSize (compared in tenths); it stops at the first line that does not fit
AddRegular(result, regular, maxSize) ==
    IF regular = <<>> THEN result
    ELSE LET testResult == Append(result, Head(regular))
         IN  IF 10 * Length(testResult) > 9 * maxSize THEN result
             ELSE AddRegular(testResult, Tail(regular), maxSize)

\* truncateContentForRequestSize
truncateContentForRequestSize(content, maxSize) ==
    IF WithinLimit(Length(content), maxSize) THEN content
    ELSE LET importantLines == ImportantLines(content)
             regularLines == RegularLines(content)
             result == AddRegular(Join(importantLines), SliceLast(regularLines, RecentLines), maxSize)
         IN  IF Length(result) < Length(content)
             THEN result \o <<EmptyLine, MarkerLine>>
             ELSE result

RECURSIVE TotalSize(_)
\* messages.reduce((total, msg) => total + (msg.content?.length || 0), 0)
TotalSize(msgs) == IF msgs = <<>> THEN 0 ELSE Length(Head(msgs).content) + TotalSize(Tail(msgs))

\* optimizeConversationForRequestSize
optimizeConversationForRequestSize(msgs, maxSize) ==
    IF Len(msgs) = 0 THEN msgs
    ELSE IF WithinLimit(TotalSize(msgs), maxSize) THEN msgs
    ELSE LET recentMessages == SliceLast(msgs, RecentMessages)
             lastMessage == msgs[Len(msgs)]
         IN  IF TotalSize(recentMessages) <= maxSize THEN recentMessages
             ELSE IF lastMessage.role = "user" /\ Length(lastMessage.content) > 0
             THEN << [role |-> lastMessage.role,
                      content |-> truncateContentForRequestSize(lastMessage.content, (maxSize * 8) \div 10)] >>
             ELSE SliceLast(recentMessages, FallbackMessages)

\* the texts and the messages that are enumerated
GovLines ==
    { EmptyLine, Line("s", 50, FALSE), Line("r", 8999, FALSE), Line("R", 9000, FALSE),
      Line("p", 9000, TRUE), Line("P", 20000, TRUE), Line("X", 18000, FALSE) }

GovTexts == { <<l>> : l \in GovLines } \cup { <<l1, l2>> : l1, l2 \in GovLines }
              \cup { <<l1, l2, l3>> : l1, l2, l3 \in {Line("s", 50, FALSE), Line("r", 8999, FALSE),
                                                     Line("R", 9000, FALSE), Line("p", 9000, TRUE)} }

GovMessages ==
    { [role |-> "user", content |-> <<Line("s", 50, FALSE)>>],
      [role |-> "assistant", content |-> <<Line("R", 9000, FALSE)>>],
      [role |-> "user", content |-> <<Line("R", 9000, FALSE)>>],
      [role |-> "user", content |-> <<Line("s", 50, FALSE), Line("P", 20000, TRUE)>>],
      [role |-> "assistant", content |-> <<EmptyLine>>],
      [role |-> "user", content |-> <<Line("R", 9000, FALSE), Line("X", 18000, FALSE)>>] }

InitGov ==
    /\ phase = "gov"
    /\ \/ govKind = "messages" /\ govIn \in SeqsUpTo(GovMessages, MaxMsgs)
       \/ govKind = "text" /\ govIn \in GovTexts
    /\ govOut = Idle
    /\ govPc = "ready"
    /\ GovOthersIdle

\* buildChatMessagesForApi governs the conversation messages
GovernMessages ==
    /\ phase = "gov" /\ govPc = "ready" /\ govKind = "messages"
    /\ govOut' = optimizeConversationForRequestSize(govIn, MAX_REQUEST_SIZE)
    /\ govPc' = "done"
    /\ UNCHANGED <<govKind, govIn>>
    /\ GovFrame

\* buildChatMessagesForApi governs a string content; callGenerateAPI governs
\* the prompt
GovernText ==
    /\ phase = "gov" /\ govPc = "ready" /\ govKind = "text"
    /\ govOut' = truncateContentForRequestSize(govIn, MAX_REQUEST_SIZE)
    /\ govPc' = "done"
    /\ UNCHANGED <<govKind, govIn>>
    /\ GovFrame

NextGov == GovernMessages \/ GovernText

SpecGov == InitGov /\ [][NextGov]_vars

\* the size the governor measures: of a text, or of the contents of a list
GovSize(kind, x) == IF kind = "messages" THEN TotalSize(x) ELSE Length(x)

HasMarker(text) == \E i \in 1..Len(text) : text[i].marker

GovHasMarker(kind, x) ==
    IF kind = "messages" THEN \E i \in 1..Len(x) : HasMarker(x[i].content) ELSE HasMarker(x)

\* C4: for every request over the limit the governed output has a total size
\* of at most the limit and contains a truncation marker.
C4_BoundedAndMarked ==
    (govPc = "done" /\ GovSize(govKind, govIn) > MAX_REQUEST_SIZE) =>
        /\ GovSize(govKind, govOut) <= MAX_REQUEST_SIZE
        /\ GovHasMarker(govKind, govOut)

\* the size part of C4 alone
C4_Bounded ==
    (govPc = "done" /\ GovSize(govKind, govIn) > MAX_REQUEST_SIZE) =>
        GovSize(govKind, govOut) <= MAX_REQUEST_SIZE

\* C5: a request whose size is at most the limit comes back unchanged: the
\* same messages in the same order with the same content, no marker added.
C5_UnchangedBelowLimit ==
    (govPc = "done" /\ GovSize(govKind, govIn) <= MAX_REQUEST_SIZE) => govOut = govIn

\* a message list of exactly the limit has been governed
C5_Witness ==
    /\ govPc = "done"
    /\ GovSize(govKind, govIn) = MAX_REQUEST_SIZE
    /\ govKind = "messages"
    /\ Len(govIn) >= 2
    /\ govOut = govIn

\* C40: for every non-empty message list, the output of
\* optimizeConversationForRequestSize contains the final message of the
\* conversation (possibly with truncated content), and the messages it keeps
\* appear in their original relative order.
C40_FinalMessageKeptInOrder ==
    (govPc = "done" /\ govKind = "messages" /\ Len(govIn) > 0) =>
        LET n == Len(govOut)
            final == govIn[Len(govIn)]
        IN  /\ n >= 1 /\ n <= Len(govIn)
            /\ govOut[n].role = final.role
            /\ (govOut[n].content = final.content \/ HasMarker(govOut[n].content))
            /\ SubSeq(govOut, 1, n - 1) = SubSeq(govIn, Len(govIn) - n + 1, Len(govIn) - 1)

\* a list of more than five messages over the limit has been cut to its
\* last five
C40_Witness ==
    /\ govPc = "done" /\ govKind = "messages"
    /\ TotalSize(govIn) > MAX_REQUEST_SIZE
    /\ Len(govIn) > 5 /\ Len(govOut) = 5
    /\ govOut[1] # govOut[5]

\* a text without the two lines of the truncation notice, when it ends with them
WithoutMarker(text) ==
    IF Len(text) >= 2 /\ text[Len(text)].marker THEN SubSeq(text, 1, Len(text) - 2) ELSE text

RECURSIVE Restrict(_, _, _)
\* the elements of seq at the positions of S, from position i on, in order
Restrict(seq, S, i) ==
    IF i > Len(seq) THEN <<>>
    ELSE (IF i \in S THEN <<seq[i]>> ELSE <<>>) \o Restrict(seq, S, i + 1)

\* C31: when truncateContentForRequestSize receives a text over the budget,
\* its result holds every important line (shorter than 100 characters or
\* matching a high-value marker), followed by the most recent regular lines
\* that fit within 90% of the budget, and it ends with the truncation marker
\* whenever any line of the input was dropped.
C31_ImportantThenMostRecent ==
    (govPc = "done" /\ govKind = "text" /\ Length(govIn) > MAX_REQUEST_SIZE) =>
        LET important == Join(ImportantLines(govIn))
            regular == RegularLines(govIn)
            body == WithoutMarker(govOut)
            kept == SubSeq(body, Len(important) + 1, Len(body))
        IN  /\ Len(body) >= Len(important)
            /\ SubSeq(body, 1, Len(important)) = important
            /\ (kept # <<>> => 10 * Length(body) <= 9 * MAX_REQUEST_SIZE)
            /\ \E S \in SUBSET (1..Len(regular)) :
                  /\ kept = Restrict(regular, S, 1)
                  \* no line is dropped in favour of an older one, unless it
                  \* could not be added to the important lines at all
                  /\ \A i \in S, j \in (1..Len(regular)) \ S :
                        j > i => 10 * Length(Append(important, regular[j])) > 9 * MAX_REQUEST_SIZE
            /\ (Len(kept) < Len(regular) => govOut[Len(govOut)].marker)

\* C30: when the chat message list exceeds the limit, the governor keeps
\* exactly the 5 most recent messages, in order, if those fit; when they do
\* not fit, it keeps only the final message, with its content truncated.
C30_LastFiveOrLastTruncated ==
    (govPc = "done" /\ govKind = "messages" /\ TotalSize(govIn) > MAX_REQUEST_SIZE) =>
        LET lastFive == SliceLast(govIn, 5)
            final == govIn[Len(govIn)]
        IN  IF TotalSize(lastFive) <= MAX_REQUEST_SIZE
            THEN govOut = lastFive
            ELSE /\ Len(govOut) = 1
                 /\ govOut[1].role = final.role
                 /\ Length(govOut[1].content) < Length(final.content)

-----------------------------------------------------------------------------
(* Streaming decoder: the read loop of callGenerateAPIStream and           *)
(* callChatAPIStream.  The response body is a sequence of symbols: a JSON  *)
(* record is two symbols (its first and its second half, so that a chunk   *)
(* can end inside it), a line that is no JSON is one symbol, and a newline *)
(* is one symbol.  Each symbol names the line of the body it belongs to.   *)

\* bound of the streamed bodies that are enumerated
MaxRecords == 3

\* the text of the record on line i, when it has one
Letters == <<"a", "b", "c", "d", "e", "f">>
Fragment(i) == <<Letters[i]>>

StreamCall == [id |-> "c1", name |-> "f", arguments |-> ObjArgs(<<KV("a", "1")>>)]

\* the kinds of lines a body is made of
LineKinds == {"text", "empty", "textDone", "emptyDone", "calls", "bad"}

\* the record a line of kind k on line i carries
RecordOf(k, i) ==
    Record(IF k \in {"text", "textDone"} THEN Fragment(i) ELSE <<>>,
           k \in {"textDone", "emptyDone"},
           IF k = "calls" THEN "message" ELSE "none",
           IF k = "calls" THEN <<StreamCall>> ELSE <<>>,
           0, 0)

Sym(c, i) == [c |-> c, i |-> i]
NL(i) == Sym("nl", i)

\* the symbols of line i, without its newline
LineSyms(k, i) == IF k = "bad" THEN <<Sym("bad", i)>> ELSE <<Sym("h1", i), Sym("h2", i)>>

RECURSIVE Serialize(_, _, _)
\* the body: every line followed by a newline, the last one only if terminated
Serialize(kinds, i, term) ==
    IF i > Len(kinds) THEN <<>>
    ELSE LineSyms(kinds[i], i)
         \o (IF i < Len(kinds) \/ term THEN <<NL(i)>> ELSE <<>>)
         \o Serialize(kinds, i + 1, term)

RECURSIVE SplitLines(_, _)
\* text.split('\n'): the pieces between the newlines; cur is the piece being read
SplitLines(text, cur) ==
    IF text = <<>> THEN <<cur>>
    ELSE IF Head(text).c = "nl" THEN <<cur>> \o SplitLines(Tail(text), <<>>)
    ELSE SplitLines(Tail(text), Append(cur, Head(text)))

\* every piece handled as a line, the trailing one too (a faulty variant)
AllPieces(pieces) == pieces
\* the lines left in `lines` after lines.pop(): all pieces but the last
CompleteLines(pieces) == SubSeq(pieces, 1, Len(pieces) - 1)

\* the trailing piece forgotten (a faulty variant)
DropPartial(pieces) == <<>>
\* buffer = lines.pop() || '': the trailing partial line
KeepPartial(pieces) == pieces[Len(pieces)]

\* JSON.parse(line): it succeeds on exactly the two halves of one record
Parses(line) ==
    /\ Len(line) = 2
    /\ line[1].c = "h1" /\ line[2].c = "h2"
    /\ line[1].i = line[2].i

\* whether the stream yields an event for record r
YieldsEvent(a, r) ==
    IF a = "generate" THEN Truthy(r.text)
    ELSE Truthy(r.text) \/ r.callsAt = "message"

\* the text an event carries, were it the text accumulated so far (a faulty variant)
CumulativeText(r, total) == total \o r.text
\* the text an event carries: ollamaResponse.response, message.content
IncrementalText(r, total) == r.text

\* the event yielded for record r: the normalized record, its first part set
\* to the incremental text when that part is a text part
StreamEvent(a, r, total) ==
    LET g == ToGeminiResponse(a, r, [given |-> a = "generate", text |-> <<"p">>])
    IN  IF Len(g.parts) > 0 /\ g.parts[1].kind = "text" /\ (a = "generate" \/ Truthy(r.text))
        THEN [g EXCEPT !.parts[1].text = IncrementalText(r, total)]
        ELSE g

\* the lines left after a line that is blank or fails to parse, were the
\* rest of the chunk given up (a faulty variant)
AbandonLines(ls) == <<>>
\* catch (parseError): a warning, then the next line of the for loop
SkipLine(ls) == Tail(ls)

\* the exits that release the reader, were releaseLock() written after the
\* loop and not in a finally block (a faulty variant)
ReleasesAfterLoop(exit) == exit = "eof"
\* try { while ... } finally { reader.releaseLock() }: every exit releases
ReleasesOn(exit) == TRUE

\* the generator ends: the finally block, then the end of the iteration
Exit(exit) ==
    /\ streamPc' = "done"
    /\ streamExit' = exit
    /\ released' = IF ReleasesOn(exit) THEN released + 1 ELSE released
    /\ yielded' = FALSE

InitStream ==
    /\ phase = "stream"
    /\ streamApi \in {"generate", "chat"}
    /\ streamBody \in SeqsUpTo(LineKinds, MaxRecords)
    /\ (streamApi = "generate" => \A i \in 1..Len(streamBody) : streamBody[i] # "calls")
    /\ terminated \in BOOLEAN
    /\ (streamBody = <<>> => terminated)
    /\ wire = Serialize(streamBody, 1, terminated)
    /\ buffer = <<>>
    /\ lines = <<>>
    /\ events = <<>>
    /\ totalResponse = <<>>
    /\ streamPc = "read"
    /\ yielded = FALSE
    /\ released = 0
    /\ streamExit = "none"
    /\ doneSeen = FALSE
    /\ StreamOthersIdle

\* reader.read() returns a chunk: any non-empty prefix of what is left of the
\* body; the chunk is appended to the buffer, the buffer split at newlines and
\* its last piece kept as the new buffer
ReadChunk ==
    /\ phase = "stream" /\ streamPc = "read"
    /\ wire # <<>>
    /\ \E n \in 1..Len(wire) :
          LET pieces == SplitLines(buffer \o SubSeq(wire, 1, n), <<>>)
          IN  /\ wire' = SubSeq(wire, n + 1, Len(wire))
              /\ lines' = CompleteLines(pieces)
              /\ buffer' = KeepPartial(pieces)
    /\ streamPc' = "lines"
    /\ yielded' = FALSE
    /\ UNCHANGED <<streamApi, streamBody, terminated, events, totalResponse, released, streamExit,
                   doneSeen>>
    /\ StreamFrame

\* the for loop has no line left: back to reader.read()
LinesDone ==
    /\ phase = "stream" /\ streamPc = "lines"
    /\ lines = <<>>
    /\ streamPc' = "read"
    /\ yielded' = FALSE
    /\ UNCHANGED <<streamApi, streamBody, terminated, wire, buffer, lines, events, totalResponse,
                   released, streamExit, doneSeen>>
    /\ StreamFrame

\* one iteration of the for loop over the lines of the chunk
ProcessLine ==
    /\ phase = "stream" /\ streamPc = "lines"
    /\ lines # <<>>
    /\ LET line == Head(lines)
           r == RecordOf(streamBody[line[1].i], line[1].i)
       IN  IF line = <<>> \/ ~Parses(line)
           THEN \* a blank line is skipped; a parse error is caught and logged
                /\ lines' = SkipLine(lines)
                /\ yielded' = FALSE
                /\ UNCHANGED <<events, totalResponse, doneSeen>>
           ELSE /\ yielded' = YieldsEvent(streamApi, r)
                /\ IF YieldsEvent(streamApi, r)
                   THEN /\ totalResponse' =
                              IF streamApi = "generate" THEN totalResponse \o r.text
                              ELSE totalResponse
                        /\ events' = Append(events,
                              [src |-> line[1].i,
                               resp |-> StreamEvent(streamApi, r, totalResponse)])
                   ELSE UNCHANGED <<events, totalResponse>>
                \* break leaves the for loop, not the read loop
                /\ lines' = IF r.done THEN <<>> ELSE Tail(lines)
                /\ doneSeen' = (doneSeen \/ r.done)
    /\ UNCHANGED <<streamApi, streamBody, terminated, wire, buffer, streamPc, released, streamExit>>
    /\ StreamFrame

\* reader.read() reports the end of the body: the loop ends, finally runs
EndOfStream ==
    /\ phase = "stream" /\ streamPc = "read"
    /\ wire = <<>>
    /\ Exit("eof")
    /\ UNCHANGED <<streamApi, streamBody, terminated, wire, buffer, lines, events, totalResponse,
                   doneSeen>>
    /\ StreamFrame

NextStream == ReadChunk \/ LinesDone \/ ProcessLine \/ EndOfStream

SpecStream == InitStream /\ [][NextStream]_vars

\* reader.read() rejects: the connection breaks or, in callChatAPIStream, the
\* timer aborts the request; the finally block runs and the error is rethrown
ReadFails ==
    /\ phase = "stream" /\ streamPc = "read"
    /\ Exit("readError")
    /\ UNCHANGED <<streamApi, streamBody, terminated, wire, buffer, lines, events, totalResponse,
                   doneSeen>>
    /\ StreamFrame

\* the consumer stops iterating: return() of the generator suspended at a
\* yield runs the finally block
ConsumerReturns ==
    /\ phase = "stream" /\ streamPc = "lines" /\ yielded
    /\ Exit("return")
    /\ UNCHANGED <<streamApi, streamBody, terminated, wire, buffer, lines, events, totalResponse,
                   doneSeen>>
    /\ StreamFrame

NextStreamExits ==
    ReadChunk \/ LinesDone \/ ProcessLine \/ EndOfStream \/ ReadFails \/ ConsumerReturns

\* the decoder with its read failures and a consumer that may stop early
SpecStreamExits == InitStream /\ [][NextStreamExits]_vars

-----------------------------------------------------------------------------
(* The buffered paths: what callGenerateAPI and callChatAPI make of the    *)
(* record the backend returns *)

\* callGenerateAPI: a record with neither text nor tool calls is an error
GenerateResult(r, prompt) ==
    IF (~Truthy(r.text) \/ Trim(r.text) = <<>>)
       /\ (r.callsAt # "response" \/ Len(r.tool_calls) = 0)
    THEN [ok |-> FALSE, resp |-> Idle]
    ELSE [ok |-> TRUE, resp |-> ToGeminiResponse("generate", r, prompt)]

\* callChatAPI: every parsed record is normalized
ChatResult(r) ==
    [ok |-> TRUE, resp |-> ToGeminiResponse("chat", r, [given |-> FALSE, text |-> <<>>])]

BufferedResult(a, r, prompt) == IF a = "generate" THEN GenerateResult(r, prompt) ELSE ChatResult(r)

RECURSIVE TextOfParts(_)
\* the text of a response: its text parts, concatenated in order
TextOfParts(parts) ==
    IF parts = <<>> THEN <<>>
    ELSE (IF Head(parts).kind = "text" THEN Head(parts).text ELSE <<>>) \o TextOfParts(Tail(parts))

RECURSIVE TextOfEvents(_)
\* the texts of the yielded events, concatenated in order
TextOfEvents(es) ==
    IF es = <<>> THEN <<>> ELSE TextOfParts(Head(es).resp.parts) \o TextOfEvents(Tail(es))

RECURSIVE BackendText(_, _)
\* the text the backend generates: the fragments of its stream records
BackendText(body, i) ==
    IF i > Len(body) THEN <<>>
    ELSE (IF body[i] = "bad" THEN <<>> ELSE RecordOf(body[i], i).text) \o BackendText(body, i + 1)

\* the record the backend returns for the same output when stream is false
BufferedRecord(body) == Record(BackendText(body, 1), TRUE, "none", <<>>, 0, 0)

-----------------------------------------------------------------------------
(* The buffered paths applied to the records a backend can return *)

\* the records of NormRecords, and records whose text is blank or has blanks
\* around it
BufferedRecords ==
    NormRecords
    \cup { Record(t, TRUE, "none", <<>>, 0, ec) :
             t \in {<<" ">>, <<" ", "4">>, <<"4">>}, ec \in {0, 1} }

InitBuffered ==
    /\ phase = "buffered"
    /\ api \in {"generate", "chat"}
    /\ ollamaResponse \in BufferedRecords
    /\ (api = "generate" => ollamaResponse.callsAt # "message")
    /\ fullPromptText \in {p \in Prompts : p.given}
    /\ geminiResponse = Idle
    /\ normPc = "ready"
    /\ NormOthersIdle

\* callGenerateAPI or callChatAPI from the parsed record to its return or throw
ReturnBuffered ==
    /\ phase = "buffered" /\ normPc = "ready"
    /\ geminiResponse' = BufferedResult(api, ollamaResponse, fullPromptText)
    /\ normPc' = "done"
    /\ UNCHANGED <<api, ollamaResponse, fullPromptText>>
    /\ NormFrame

NextBuffered == ReturnBuffered

SpecBuffered == InitBuffered /\ [][NextBuffered]_vars

\* C16: a non-streaming call whose backend result has no text and no tool
\* calls ends with an error, in simple mode and in chat mode alike.
C16_EmptyResultIsError ==
    (/\ phase = "buffered" /\ normPc = "done"
     /\ ~Truthy(ollamaResponse.text) /\ ToolCallsRead(api, ollamaResponse) = <<>>)
        => ~geminiResponse.ok

\* the record of C19: a text, done, an eval_count, no tool calls
SimpleRecord(r) == r.done /\ r.eval_count > 0 /\ r.tool_calls = <<>>

\* what C19 says of the response to such a record
OneTextPart(res, r) ==
    /\ res.ok
    /\ res.resp.parts = <<[kind |-> "text", text |-> r.text, id |-> "", name |-> "", args |-> <<>>]>>
    /\ res.resp.finishReason = "STOP"
    /\ res.resp.candidatesTokenCount = r.eval_count

\* C19 (as stated): a simple-mode buffered call whose backend result is
\* {response: t, done: true, eval_count: n}, t non-empty and n positive,
\* returns one text part equal to t, finish reason STOP and
\* candidatesTokenCount n.
C19_AsStated ==
    (/\ phase = "buffered" /\ normPc = "done" /\ api = "generate"
     /\ SimpleRecord(ollamaResponse) /\ ollamaResponse.text # <<>>)
        => OneTextPart(geminiResponse, ollamaResponse)

\* C19 (amended): the same for every t that is not blank, that is, has a
\* character that is no whitespace.
C19_OneTextPart ==
    (/\ phase = "buffered" /\ normPc = "done" /\ api = "generate"
     /\ SimpleRecord(ollamaResponse) /\ Trim(ollamaResponse.text) # <<>>)
        => OneTextPart(geminiResponse, ollamaResponse)

\* a simple-mode call has returned a text that has a blank in front
C19_Witness ==
    /\ phase = "buffered" /\ normPc = "done" /\ api = "generate"
    /\ SimpleRecord(ollamaResponse)
    /\ ollamaResponse.text = <<" ", "4">>
    /\ geminiResponse.ok

-----------------------------------------------------------------------------
(* Claims about the streaming decoder *)

\* the record that produced an event
SourceRecord(e) == RecordOf(streamBody[e.src], e.src)

\* C2: in both streaming paths the text part of every yielded event equals
\* the text fragment of the one record that produced it, never the
\* accumulation of the fragments of earlier records.
C2_IncrementalText ==
    phase = "stream" =>
        \A k \in 1..Len(events) :
            /\ streamBody[events[k].src] # "bad"
            /\ TextOfParts(events[k].resp.parts) = SourceRecord(events[k]).text

\* a second text event has been yielded, whose fragment differs from the text
\* accumulated so far
C2_Witness ==
    /\ phase = "stream"
    /\ Len(events) >= 2
    /\ streamApi = "generate"
    /\ TextOfParts(events[2].resp.parts) # <<>>
    /\ TextOfParts(events[2].resp.parts) # totalResponse

\* every line of the body is a JSON record
AllRecords == \A i \in 1..Len(streamBody) : streamBody[i] # "bad"

\* no record before the last one has done set
DoneOnlyLast ==
    \A i \in 1..Len(streamBody) :
        (streamBody[i] # "bad" /\ RecordOf(streamBody[i], i).done) => i = Len(streamBody)

RECURSIVE ContentLines(_, _, _)
\* the lines whose record carries new content, in order
ContentLines(a, body, i) ==
    IF i > Len(body) THEN <<>>
    ELSE (IF body[i] # "bad" /\ YieldsEvent(a, RecordOf(body[i], i)) THEN <<i>> ELSE <<>>)
         \o ContentLines(a, body, i + 1)

EventSources == [k \in 1..Len(events) |-> events[k].src]

C14_ReleasedExactlyOnce ==
    phase = "stream" =>
        /\ (streamPc = "done" => released = 1)
        /\ (streamPc # "done" => released = 0)

\* the consumer has stopped early, or a read has failed, after an event
C14_Witness ==
    /\ phase = "stream" /\ streamPc = "done"
    /\ streamExit \in {"return", "readError"}
    /\ Len(events) >= 1
    /\ released = 1

\* line j is a valid record that follows a line that is no JSON
FollowsBadLine(j) ==
    /\ streamBody[j] # "bad"
    /\ \E i \in 1..(j - 1) : streamBody[i] = "bad"

C24_NothingAfterDone ==
    [][(phase = "stream" /\ doneSeen) => (events' = events /\ wire' = wire)]_vars

-----------------------------------------------------------------------------
(* The facade: generateContent.  A call sends its request to /api/chat or  *)
(* /api/generate, awaits the backend, and on a failure of the chat request *)
(* falls back to /api/generate.  The instance keeps its configuration and  *)
(* nothing else between calls; the ghost variables record what the calls   *)
(* met.                                                                    *)

\* bound of the calls made on the instance
MaxCallSeq == 3

DefaultTimeout == 120000
DefaultTemperatureTenths == 7
DefaultRequestContextSize == 8192
MinRequestContextSize == 1024

\* a configuration: "unset" for an option that is not configured, 0 for a
\* timeout that is not configured (the code reads numbers with ||); the
\* temperature is in tenths.  For temperature and requestContextSize the
\* flags temperatureSet and requestContextSizeSet tell a configured number,
\* which may be 0, from an option that is absent (undefined, read as 0 here)
Configs ==
    { c \in [enableChatApi : {"unset", "on", "off"}, timeout : {0, 30000},
              temperatureSet : BOOLEAN, temperature : {0, 3},
              requestContextSizeSet : BOOLEAN, requestContextSize : {0, 512, 1048576}] :
        /\ (~c.temperatureSet => c.temperature = 0)
        /\ (~c.requestContextSizeSet => c.requestContextSize = 0) }

\* a request: tools is "none" (no tool list), "decl" (a tool list with
\* function declarations) or "nodecl" (a non-empty tool list that declares no
\* function); msgs is the number of conversation messages its contents yield
Requests ==
    { [tools |-> "none", msgs |-> 1], [tools |-> "decl", msgs |-> 1],
      [tools |-> "nodecl", msgs |-> 1], [tools |-> "nodecl", msgs |-> 0] }

\* hasTools: the tool list is a non-empty array
hasTools(req) == req.tools # "none"

\* chat mode only when switched on in the configuration (a faulty variant)
EnableChatApiOptIn(cfg) == cfg.enableChatApi = "on"
\* this.config.enableChatApi ?? true
EnableChatApi(cfg) == cfg.enableChatApi # "off"

\* chat mode refused once a call has failed (a faulty variant)
shouldUseChatAPIUntilFailure(tools, enableChatApi) == enableChatApi /\ tools /\ ~failedBefore
\* shouldUseChatAPI
shouldUseChatAPI(tools, enableChatApi) == enableChatApi /\ tools

\* getTimeout
getTimeout(cfg) == IF cfg.timeout # 0 THEN cfg.timeout ELSE DefaultTimeout

\* getRequestContextSize
getRequestContextSize(cfg) ==
    LET requestContextSize ==
            IF cfg.requestContextSize # 0 THEN cfg.requestContextSize ELSE DefaultRequestContextSize
    IN  IF requestContextSize > MinRequestContextSize THEN requestContextSize ELSE MinRequestContextSize

\* this.config.temperature || 0.7, in tenths
Temperature(cfg) == IF cfg.temperature # 0 THEN cfg.temperature ELSE DefaultTemperatureTenths

\* the request callChatAPI sends; its deadline is the AbortController's timer
ChatRequest(cfg, req) ==
    [endpoint |-> "/api/chat", stream |-> FALSE, deadline |-> getTimeout(cfg),
     tools |-> req.tools = "decl",
     temperature |-> Temperature(cfg), num_ctx |-> getRequestContextSize(cfg)]

\* the endpoint of the fallback, were it the chat endpoint again (a faulty variant)
RetryEndpoint == "/api/chat"
\* the endpoint callGenerateAPI posts to
GenerateEndpoint == "/api/generate"

\* the request callGenerateAPI sends: no tools, and no deadline (0)
GenerateRequest(cfg, req) ==
    [endpoint |-> GenerateEndpoint, stream |-> FALSE, deadline |-> 0, tools |-> FALSE,
     temperature |-> Temperature(cfg), num_ctx |-> getRequestContextSize(cfg)]

\* the messages buildChatMessagesForApi returns: the system message when
\* tools are declared, the conversation messages, and the placeholder user
\* message when that makes exactly one message
ChatMessageCount(req) ==
    LET n == (IF req.tools = "decl" THEN 1 ELSE 0) + req.msgs
    IN  IF n = 1 THEN 2 ELSE n

\* how the awaited chat request can end: a response, the abort of the timer,
\* a failed connection, an error status, a body that is no JSON
ChatOutcomes == {"ok", "timeout", "unreachable", "status", "badjson"}
\* how the awaited generate request can end: a record with content, a record
\* without, a failed connection, an error status
GenerateOutcomes == {"ok", "empty", "unreachable", "status"}

\* the error callChatAPI throws: the abort of the timer is told apart from
\* every other failure by its message
ChatError(o) ==
    IF o = "timeout" THEN "Ollama chat request was aborted due to timeout"
    ELSE "Failed to generate content with Ollama tools"

\* the error callGenerateAPI throws: one wrapper around the cause
GenerateError(o) ==
    CASE o = "empty" -> "Failed to generate content with Ollama: empty response"
      [] o = "unreachable" -> "Failed to generate content with Ollama: fetch failed"
      [] o = "status" -> "Failed to generate content with Ollama: API error"

InitCall ==
    /\ phase = "call"
    /\ config \in Configs
    /\ request = [tools |-> "none", msgs |-> 0]
    /\ callPc = "idle"
    /\ sent = <<>>
    /\ chatOutcome = "none"
    /\ callResult = "none"
    /\ callN = 0
    /\ timeoutsInARow = 0
    /\ prevOk = FALSE
    /\ failedBefore = FALSE
    /\ CallOthersIdle

\* the ghost variables at the end of a call
EndOfCall(chat, res) ==
    /\ callResult' = res
    /\ callPc' = "idle"
    /\ timeoutsInARow' = IF chat = "timeout" THEN timeoutsInARow + 1 ELSE 0
    /\ prevOk' = (res = "ok")
    /\ failedBefore' = (failedBefore \/ res # "ok" \/ chat \notin {"none", "ok"})

\* generateContent up to its first await of the backend
StartCall ==
    /\ phase = "call" /\ callPc = "idle" /\ callN < MaxCallSeq
    /\ \E req \in Requests :
          /\ request' = req
          /\ IF hasTools(req) /\ shouldUseChatAPI(hasTools(req), EnableChatApi(config))
             THEN IF ChatMessageCount(req) = 0
                  THEN \* callChatAPI throws before it sends; the catch falls back
                       /\ chatOutcome' = "nomessages"
                       /\ sent' = <<GenerateRequest(config, req)>>
                       /\ callPc' = "generate"
                  ELSE /\ chatOutcome' = "none"
                       /\ sent' = <<ChatRequest(config, req)>>
                       /\ callPc' = "chat"
             ELSE /\ chatOutcome' = "none"
                  /\ sent' = <<GenerateRequest(config, req)>>
                  /\ callPc' = "generate"
    /\ callN' = callN + 1
    /\ callResult' = "pending"
    /\ UNCHANGED <<config, timeoutsInARow, prevOk, failedBefore>>
    /\ CallFrame

\* the chat request ends: callChatAPI returns the normalized response, or
\* throws and generateContent calls callGenerateAPI
ChatReturns ==
    /\ phase = "call" /\ callPc = "chat"
    /\ \E o \in ChatOutcomes :
          /\ chatOutcome' = o
          /\ IF o = "ok"
             THEN /\ EndOfCall(o, "ok")
                  /\ UNCHANGED sent
             ELSE /\ sent' = Append(sent, GenerateRequest(config, request))
                  /\ callPc' = "generate"
                  /\ UNCHANGED <<callResult, timeoutsInARow, prevOk, failedBefore>>
    /\ UNCHANGED <<config, request, callN>>
    /\ CallFrame

\* the generate request ends: callGenerateAPI returns the normalized
\* response, or throws to the caller of generateContent
GenerateReturns ==
    /\ phase = "call" /\ callPc = "generate"
    /\ \E o \in GenerateOutcomes :
          EndOfCall(chatOutcome, IF o = "ok" THEN "ok" ELSE GenerateError(o))
    /\ UNCHANGED <<config, request, sent, chatOutcome, callN>>
    /\ CallFrame

NextCall == StartCall \/ ChatReturns \/ GenerateReturns

SpecCall == InitCall /\ [][NextCall]_vars

Endpoints(reqs) == [k \in 1..Len(reqs) |-> reqs[k].endpoint]
CountOf(reqs, ep) == Cardinality({k \in 1..Len(reqs) : reqs[k].endpoint = ep})

\* C8: after two consecutive calls that ended in a timeout, the next call is
\* sent in simple mode, with no /api/chat request, even when it carries tool
\* declarations.
C8_SimpleModeAfterTwoTimeouts ==
    (phase = "call" /\ timeoutsInARow >= 2 /\ callPc # "idle" /\ request.tools = "decl")
        => CountOf(sent, "/api/chat") = 0

\* C9: after a successful call, whatever failures came before it, the next
\* request that carries tool declarations is sent in chat mode with the
\* normal timeout and options (chat mode not being switched off in the
\* configuration).
C9_ChatModeAfterSuccess ==
    (/\ phase = "call" /\ prevOk /\ callPc # "idle"
     /\ request.tools = "decl" /\ config.enableChatApi # "off")
        => /\ Len(sent) >= 1
           /\ sent[1].endpoint = "/api/chat"
           /\ sent[1].tools
           /\ sent[1].deadline = (IF config.timeout = 0 THEN 120000 ELSE config.timeout)
           /\ sent[1].temperature = Temperature(config)
           /\ sent[1].num_ctx = getRequestContextSize(config)

\* a tool-carrying call is in progress after a success that followed a failure
C9_Witness ==
    /\ phase = "call" /\ prevOk /\ failedBefore /\ callPc = "chat"
    /\ request.tools = "decl"

\* C10: one generateContent call sends at most one request to /api/chat and
\* at most one to /api/generate; a /api/generate request follows a /api/chat
\* request only when that chat request failed; no request is sent twice in
\* the same mode.
C10_OneRequestPerMode ==
    phase = "call" =>
        /\ CountOf(sent, "/api/chat") <= 1
        /\ CountOf(sent, "/api/generate") <= 1
        /\ (Len(sent) = 2 =>
               /\ Endpoints(sent) = <<"/api/chat", "/api/generate">>
               /\ chatOutcome \in ChatOutcomes \ {"ok"})
        /\ Len(sent) <= 2

\* a call has fallen back to /api/generate after its chat request failed
C10_Witness ==
    /\ phase = "call"
    /\ Len(sent) = 2
    /\ chatOutcome = "timeout"
    /\ callResult = "ok"


\* C11: when the backend is unreachable, a generateContent call sends one
\* request, surfaces the connectivity failure to its caller and sends no
\* further request.
C11_OneRequestWhenUnreachable ==
    (phase = "call" /\ chatOutcome = "unreachable") =>
        /\ Len(sent) = 1
        /\ (callPc = "idle" =>
               callResult \in {ChatError("unreachable"), GenerateError("unreachable")})

\* C12: when the deadline of a generateContent call expires, the caller
\* receives an error that identifies the outcome as a timeout.
C12_TimeoutSurfaced ==
    (phase = "call" /\ callPc = "idle" /\ chatOutcome = "timeout") =>
        callResult = ChatError("timeout")

\* C13: every outbound generation request carries a deadline.
C13_EveryRequestHasDeadline ==
    phase = "call" => \A k \in 1..Len(sent) : sent[k].deadline > 0


-----------------------------------------------------------------------------
(* Context-length resolution.  The constructor of an adapter starts        *)
(* initializeContextLength without awaiting it; that asks /api/show for    *)
(* the model and writes what getContextLength returns into the cache of    *)
(* ollamaTokenLimits, which all adapters share.                            *)
(* ensureContextLengthInitialized resolves only when the cache holds       *)
(* nothing truthy for the model.                                           *)

\* bounds: the adapters constructed and the /api/show requests sent
MaxAdapters == 2
MaxShowRequests == 3

FallbackContextLength == 2048

Models == {"m1", "m2"}

\* a JavaScript value of the cache: a number, NaN, or undefined
Num(n) == [kind |-> "number", n |-> n]
NaN == [kind |-> "NaN", n |-> 0]
Undefined == [kind |-> "undefined", n |-> 0]

\* the value of the first model_info key that ends in 'context_length': a
\* number, or a string that parseInt reads or does not read
InfoValues ==
    { [type |-> "number", n |-> 32768, digits |-> TRUE],
      [type |-> "number", n |-> 0, digits |-> TRUE],
      [type |-> "string", n |-> 4096, digits |-> TRUE],
      [type |-> "string", n |-> 0, digits |-> FALSE] }

\* how an /api/show request ends: a body with such a key, a body without,
\* an error status, a failed connection
NoInfo == [type |-> "none", n |-> 0, digits |-> FALSE]
ShowOutcomes ==
    { [how |-> "info", value |-> v] : v \in InfoValues }
    \cup { [how |-> h, value |-> NoInfo] : h \in {"nokey", "status", "unreachable"} }

\* parseInt(value, 10) of a string
ParseInt(v) == IF v.digits THEN Num(v.n) ELSE NaN

\* getContextLength, given how the request of getModelInfo ended
getContextLength(o) ==
    IF o.how = "info"
    THEN IF o.value.type = "number" THEN Num(o.value.n) ELSE ParseInt(o.value)
    ELSE Num(FallbackContextLength)

\* if (getOllamaModelContextLength(model)): the cached value is truthy
Cached(v) == v.kind = "number" /\ v.n # 0

\* the limit tokenLimit returns for an Ollama model that has no cached
\* context length
UnknownOllamaTokenLimit == 4096

\* tokenLimit of an Ollama model
tokenLimit(m) ==
    IF Cached(ctxCache[m]) THEN ctxCache[m] ELSE Num(UnknownOllamaTokenLimit)

InitCtx ==
    /\ phase = "ctx"
    /\ ctxCache = [m \in Models |-> Undefined]
    /\ adapters = <<>>
    /\ inflight = <<>>
    /\ showCount = 0
    /\ fromShow = [m \in Models |-> FALSE]
    /\ sentAfter = [m \in Models |-> 0]
    /\ completed = [m \in Models |-> FALSE]
    /\ lastShow = [m \in Models |-> "none"]
    /\ batch = [m \in Models |-> {}]
    /\ CtxOthersIdle

\* getModelInfo sends its request to /api/show
SendShow(m) ==
    /\ inflight' = Append(inflight, m)
    /\ showCount' = showCount + 1
    /\ sentAfter' = [sentAfter EXCEPT ![m] = IF fromShow[m] THEN @ + 1 ELSE @]
    /\ batch' = IF \E k \in 1..Len(inflight) : inflight[k] = m
                THEN batch ELSE [batch EXCEPT ![m] = {}]

\* new OllamaContentGenerator(config): initializeContextLength is started
CreateAdapter ==
    /\ phase = "ctx"
    /\ Len(adapters) < MaxAdapters /\ showCount < MaxShowRequests
    /\ \E m \in Models :
          /\ adapters' = Append(adapters, m)
          /\ SendShow(m)
    /\ UNCHANGED <<ctxCache, fromShow, completed, lastShow>>
    /\ CtxFrame

\* ensureContextLengthInitialized of an adapter, up to its return or its await
EnsureInitialized ==
    /\ phase = "ctx"
    /\ \E a \in 1..Len(adapters) :
          LET m == adapters[a]
          IN  IF Cached(ctxCache[m])
              THEN UNCHANGED <<inflight, showCount, sentAfter, batch>>
              ELSE showCount < MaxShowRequests /\ SendShow(m)
    /\ UNCHANGED <<ctxCache, adapters, fromShow, completed, lastShow>>
    /\ CtxFrame

\* a request to /api/show ends; getContextLength returns and
\* initializeContextLength writes the cache
ShowReturns ==
    /\ phase = "ctx"
    /\ \E k \in 1..Len(inflight), o \in ShowOutcomes :
          LET m == inflight[k]
          IN  /\ inflight' = SubSeq(inflight, 1, k - 1) \o SubSeq(inflight, k + 1, Len(inflight))
              /\ ctxCache' = [ctxCache EXCEPT ![m] = getContextLength(o)]
              /\ fromShow' = [fromShow EXCEPT ![m] = (o.how = "info" /\ Cached(getContextLength(o)))]
              /\ completed' = [completed EXCEPT ![m] = TRUE]
              /\ lastShow' = [lastShow EXCEPT ![m] = o.how]
              /\ batch' = [batch EXCEPT ![m] = @ \cup {getContextLength(o)}]
    /\ UNCHANGED <<adapters, showCount, sentAfter>>
    /\ CtxFrame

NextCtx == CreateAdapter \/ EnsureInitialized \/ ShowReturns

SpecCtx == InitCtx /\ [][NextCtx]_vars

\* C17: after the context length of a model has been resolved from /api/show
\* and cached, no later resolution for that model sends a request.
C17_NoRequestOnceCached ==
    phase = "ctx" => \A m \in Models : sentAfter[m] = 0

\* C18: when a resolution has returned, whatever the /api/show request met,
\* the cache holds a positive integer for the model.
C18_CachePositive ==
    phase = "ctx" =>
        \A m \in Models : completed[m] => (ctxCache[m].kind = "number" /\ ctxCache[m].n > 0)

\* C22: when context-length detection fails (backend unreachable, or an
\* error status from /api/show), the context length in use for the model,
\* both the cache entry and the result of tokenLimit, is 4096.
C22_FallbackIs4096 ==
    phase = "ctx" =>
        \A m \in Models :
            lastShow[m] \in {"unreachable", "status"} =>
                /\ ctxCache[m] = Num(4096)
                /\ tokenLimit(m) = Num(4096)

\* C35: when several context-length resolutions for the same model run
\* concurrently (the constructor's background initialization,
\* ensureContextLengthInitialized, another adapter instance for that model),
\* they all write an equally valid value, so the cached value after all of
\* them have finished does not depend on the order in which they complete.
C35_ConcurrentWritesAgree ==
    phase = "ctx" => \A m \in Models : Cardinality(batch[m]) <= 1

-----------------------------------------------------------------------------
(* The operations of the adapter and the backend requests they build.      *)
(* generateContent, generateContentStream and embedContent are followed    *)
(* from the request they are given to the requests they send and to what   *)
(* their caller receives.  The variables of the facade are used; request   *)
(* holds the operation and the fields of the request the code reads.       *)

\* bounds of the requests that are enumerated: the length of a tool list and
\* of a conversation history
MaxTools == 1
MaxHistory == 2

\* a tool list: undefined, or an array of tools; a tool is "fn" (an object
\* with functionDeclarations that declare one function) or "search" (an
\* object without functionDeclarations, such as { googleSearch: {} })
NoToolList == [isArray |-> FALSE, items |-> <<>>]
ToolList(items) == [isArray |-> TRUE, items |-> items]
ToolLists == {NoToolList} \cup { ToolList(items) : items \in SeqsUpTo({"fn", "search"}, MaxTools) }

\* the turns of the enumerated histories: a user turn, a model turn, and a
\* user turn whose text is blank
UserTurn == [role |-> "user", parts |-> <<TextPart(<<"a">>)>>]
ModelTurn == [role |-> "model", parts |-> <<TextPart(<<"a">>)>>]
BlankTurn == [role |-> "user", parts |-> <<TextPart(<<" ">>)>>]
SendContents == SeqsUpTo({UserTurn, ModelTurn, BlankTurn}, MaxHistory)

\* a request of generateContent or generateContentStream: request.tools,
\* request.config.tools, the JSON constraint of request.config ("mime" for
\* responseMimeType 'application/json' alone, "schema" for
\* responseJsonSchema) and request.contents as an array of Content
GenerateRequests(op) ==
    [op : {op}, tools : ToolLists, configTools : ToolLists,
     schema : {"none", "mime", "schema"}, contents : SendContents]

\* a request of embedContent
EmbedRequests ==
    [op : {"embedContent"}, tools : {NoToolList}, configTools : {NoToolList},
     schema : {"none"}, contents : SendContents]

NoRequest ==
    [op |-> "none", tools |-> NoToolList, configTools |-> NoToolList,
     schema |-> "none", contents |-> <<>>]

\* (request as any).tools || request.config?.tools: an array is truthy, an
\* empty one too
toolsSource(req) == IF req.tools.isArray THEN req.tools ELSE req.configTools

\* hasTools, on the two places of a request that can hold a tool list
requestHasTools(req) ==
    LET tools == toolsSource(req)
    IN  tools.isArray /\ Len(tools.items) > 0

\* convertGeminiToolsToOllama: one entry for every declared function
convertGeminiToolsToOllama(tools) ==
    IF tools.isArray THEN SelectSeq(tools.items, LAMBDA tool : tool = "fn") ELSE <<>>

\* the tools of the backend request: toolsSource ? convert(toolsSource) : []
OllamaTools(req) == convertGeminiToolsToOllama(toolsSource(req))

\* 'You are a helpful assistant with access to tools.'
SystemMessage == [role |-> "system", content |-> <<"S">>, tool_calls |-> <<>>]
\* 'Please provide a valid command to execute.'
PlaceholderMessage == [role |-> "user", content |-> <<"P">>, tool_calls |-> <<>>]

\* the system message put in front whatever the tools (a faulty variant)
SystemMessagesAlways(tools) == <<SystemMessage>>
\* the system message buildChatMessagesForApi starts with
SystemMessages(tools) == IF Len(tools) > 0 THEN <<SystemMessage>> ELSE <<>>

\* buildChatMessagesForApi
buildChatMessagesForApi(req) ==
    LET ms == SystemMessages(OllamaTools(req)) \o buildChatMessages(req.contents)
    IN  IF Len(ms) = 1 THEN Append(ms, PlaceholderMessage) ELSE ms

\* shouldUseJsonFormat
shouldUseJsonFormat(req) == req.schema # "none"

\* the request callChatAPI (stream FALSE) and callChatAPIStream (stream
\* TRUE) post to /api/chat: neither sets format, neither adds instructions
OllamaChatRequest(req, stream) ==
    [endpoint |-> "/api/chat", stream |-> stream, format |-> "none",
     instructions |-> "none", tools |-> Len(OllamaTools(req)) > 0,
     messages |-> buildChatMessagesForApi(req)]

\* the request callGenerateAPI and callGenerateAPIStream post to
\* /api/generate: with responseJsonSchema the schema is the format and its
\* text is appended to the prompt, with the mime type alone the format is
\* 'json' and the prompt asks for JSON
OllamaGenerateRequest(req, stream) ==
    [endpoint |-> "/api/generate", stream |-> stream,
     format |-> IF ~shouldUseJsonFormat(req) THEN "none"
                ELSE IF req.schema = "schema" THEN "schema" ELSE "json",
     instructions |-> IF ~shouldUseJsonFormat(req) THEN "none"
                      ELSE IF req.schema = "schema" THEN "schema" ELSE "json",
     tools |-> FALSE, messages |-> <<>>]

\* embedContent answered by the backend (a faulty variant)
embedContentViaBackend(req) ==
    [error |-> "none",
     requests |-> << [endpoint |-> "/api/embeddings", stream |-> FALSE, format |-> "none",
                      instructions |-> "none", tools |-> FALSE, messages |-> <<>>] >>]
\* embedContent: what it throws and the requests it sends
embedContent(req) ==
    [error |-> "Embedding not implemented for Ollama yet", requests |-> <<>>]

\* how an awaited streaming chat request can end before its first record
ChatStreamOutcomes == {"ok", "timeout", "unreachable", "status"}
\* how an awaited streaming generate request can end before its first record
GenerateStreamOutcomes == {"ok", "unreachable", "status"}

\* the error callChatAPIStream throws
ChatStreamError(o) ==
    IF o = "timeout" THEN "Ollama chat stream was aborted due to timeout"
    ELSE "Failed to generate content stream with Ollama tools"

\* the error callGenerateAPIStream throws
GenerateStreamError == "Failed to generate content stream with Ollama"

\* the configurations of the instance: the options the dispatch reads
SendConfigs ==
    { c \in Configs : c.timeout = 0 /\ ~c.temperatureSet /\ ~c.requestContextSizeSet }

InitSend ==
    /\ phase = "send"
    /\ config \in SendConfigs
    /\ request = NoRequest
    /\ callPc = "idle"
    /\ sent = <<>>
    /\ chatOutcome = "none"
    /\ callResult = "none"
    /\ callN = 0
    /\ timeoutsInARow = 0
    /\ prevOk = FALSE
    /\ failedBefore = FALSE
    /\ CallOthersIdle

\* the instance keeps nothing but its configuration between operations, so
\* a behaviour follows one operation from its request to its end
SendGhosts == UNCHANGED <<config, callN, timeoutsInARow, prevOk, failedBefore>>

\* embedContent, whole
EmbedContent ==
    /\ phase = "send" /\ callPc = "idle" /\ request = NoRequest
    /\ \E req \in EmbedRequests :
          /\ request' = req
          /\ sent' = embedContent(req).requests
          /\ callResult' = (IF embedContent(req).error # "none"
                            THEN embedContent(req).error ELSE "ok")
    /\ chatOutcome' = "none"
    /\ UNCHANGED callPc
    /\ SendGhosts
    /\ CallFrame

\* generateContent up to its first await of the backend
GenerateContent ==
    /\ phase = "send" /\ callPc = "idle" /\ request = NoRequest
    /\ \E req \in GenerateRequests("generateContent") :
          /\ request' = req
          /\ IF requestHasTools(req)
                /\ shouldUseChatAPI(requestHasTools(req), EnableChatApi(config))
             THEN IF Len(buildChatMessagesForApi(req)) = 0
                  THEN \* callChatAPI throws 'No messages to send'; the catch falls back
                       /\ chatOutcome' = "nomessages"
                       /\ sent' = <<OllamaGenerateRequest(req, FALSE)>>
                       /\ callPc' = "generate"
                  ELSE /\ chatOutcome' = "none"
                       /\ sent' = <<OllamaChatRequest(req, FALSE)>>
                       /\ callPc' = "chat"
             ELSE /\ chatOutcome' = "none"
                  /\ sent' = <<OllamaGenerateRequest(req, FALSE)>>
                  /\ callPc' = "generate"
    /\ callResult' = "pending"
    /\ SendGhosts
    /\ CallFrame

\* the chat request of generateContent ends: the response is returned, or
\* the catch of generateContent calls callGenerateAPI
ChatAnswers ==
    /\ phase = "send" /\ callPc = "chat"
    /\ \E o \in ChatOutcomes :
          /\ chatOutcome' = o
          /\ IF o = "ok"
             THEN /\ callResult' = "ok"
                  /\ callPc' = "idle"
                  /\ UNCHANGED sent
             ELSE /\ sent' = Append(sent, OllamaGenerateRequest(request, FALSE))
                  /\ callPc' = "generate"
                  /\ UNCHANGED callResult
    /\ UNCHANGED request
    /\ SendGhosts
    /\ CallFrame

\* the generate request of generateContent ends
GenerateAnswers ==
    /\ phase = "send" /\ callPc = "generate"
    /\ \E o \in GenerateOutcomes :
          callResult' = (IF o = "ok" THEN "ok" ELSE GenerateError(o))
    /\ callPc' = "idle"
    /\ UNCHANGED <<request, sent, chatOutcome>>
    /\ SendGhosts
    /\ CallFrame

\* generateContentStream and the first pull of the generator it returns, up
\* to the await of the backend.  callChatAPIStream(...) only creates the
\* generator, so the try around it never catches anything
GenerateContentStream ==
    /\ phase = "send" /\ callPc = "idle" /\ request = NoRequest
    /\ \E req \in GenerateRequests("generateContentStream") :
          /\ request' = req
          /\ IF requestHasTools(req)
                /\ shouldUseChatAPI(requestHasTools(req), EnableChatApi(config))
             THEN /\ sent' = <<OllamaChatRequest(req, TRUE)>>
                  /\ callPc' = "chatStream"
             ELSE /\ sent' = <<OllamaGenerateRequest(req, TRUE)>>
                  /\ callPc' = "generateStream"
    /\ chatOutcome' = "none"
    /\ callResult' = "pending"
    /\ SendGhosts
    /\ CallFrame

\* the streaming chat request ends: the consumer is given the events of the
\* chat stream, or the error callChatAPIStream throws
ChatStreamAnswers ==
    /\ phase = "send" /\ callPc = "chatStream"
    /\ \E o \in ChatStreamOutcomes :
          /\ chatOutcome' = o
          /\ callResult' = (IF o = "ok" THEN "chat events" ELSE ChatStreamError(o))
    /\ callPc' = "idle"
    /\ UNCHANGED <<request, sent>>
    /\ SendGhosts
    /\ CallFrame

\* the streaming generate request ends
GenerateStreamAnswers ==
    /\ phase = "send" /\ callPc = "generateStream"
    /\ \E o \in GenerateStreamOutcomes :
          callResult' = (IF o = "ok" THEN "generate events" ELSE GenerateStreamError)
    /\ callPc' = "idle"
    /\ UNCHANGED <<request, sent, chatOutcome>>
    /\ SendGhosts
    /\ CallFrame

NextSend ==
    \/ EmbedContent
    \/ GenerateContent \/ ChatAnswers \/ GenerateAnswers
    \/ GenerateContentStream \/ ChatStreamAnswers \/ GenerateStreamAnswers

SpecSend == InitSend /\ [][NextSend]_vars

NonEmptyArray(tools) == tools.isArray /\ Len(tools.items) > 0

\* C23: hasTools checks both sources: it is true exactly when request.tools
\* or request.config.tools is a non-empty array, so a tool list in either
\* place is detected whatever the other place holds.
C23_BothSourcesChecked ==
    (phase = "send" /\ request.op \in {"generateContent", "generateContentStream"}) =>
        (requestHasTools(request)
            <=> (NonEmptyArray(request.tools) \/ NonEmptyArray(request.configTools)))

\* the operation of the request is one of the two that generate content
Generating == phase = "send" /\ request.op \in {"generateContent", "generateContentStream"}

C26_StreamFallsBack ==
    (/\ phase = "send" /\ request.op = "generateContentStream"
     /\ callPc = "idle" /\ chatOutcome \in ChatStreamOutcomes \ {"ok"})
        => /\ Len(sent) = 2
           /\ sent[2].endpoint = "/api/generate" /\ sent[2].stream
           /\ callResult \in {"generate events", GenerateStreamError}

\* C27: for every request with a JSON-schema constraint, in whichever mode it
\* is sent, the backend request carries the schema in its format parameter
\* and the schema instructions in its prompt or last message.
C27_SchemaInEveryRequest ==
    (Generating /\ request.schema = "schema") =>
        \A k \in 1..Len(sent) :
            sent[k].format = "schema" /\ sent[k].instructions = "schema"

\* the tool list the request is sent with declares a function
DeclaresFunction(req) ==
    LET tools == toolsSource(req)
    IN  \E j \in 1..Len(tools.items) : tools.items[j] = "fn"

\* the positions of ms that hold a message of the given role
WithRole(ms, role) == {j \in 1..Len(ms) : ms[j].role = role}

C29_PlaceholderOnlyWhenEmpty ==
    Generating =>
        \A k \in 1..Len(sent) :
            (/\ sent[k].endpoint = "/api/chat"
             /\ \E j \in 1..Len(sent[k].messages) : sent[k].messages[j] = PlaceholderMessage)
                => buildChatMessages(request.contents) = <<>>

-----------------------------------------------------------------------------
(* Context-length resolution with a configured context limit, as the later *)
(* version of the adapter does it: the constructor writes config.contextLimit *)
(* into the cache when it is positive and starts initializeContextLength   *)
(* otherwise.  The variables of the context-length resolution are used; an *)
(* adapter is its model and its contextLimit (0 when none is configured).  *)

\* the context limits an adapter is configured with: none, or a positive number
ContextLimits == {0, 16384}

\* this.config.contextLimit && this.config.contextLimit > 0
HasContextLimit(a) == a.contextLimit # 0 /\ a.contextLimit > 0

InitCtxConfigured ==
    /\ phase = "ctxConfigured"
    /\ ctxCache = [m \in Models |-> Undefined]
    /\ adapters = <<>>
    /\ inflight = <<>>
    /\ showCount = 0
    /\ fromShow = [m \in Models |-> FALSE]
    /\ sentAfter = [m \in Models |-> 0]
    /\ completed = [m \in Models |-> FALSE]
    /\ lastShow = [m \in Models |-> "none"]
    /\ batch = [m \in Models |-> {}]
    /\ CtxOthersIdle

\* getModelInfo sends its request to /api/show; the ghost sentAfter counts
\* the requests sent while the cache held a value for the model
QueryShow(m) ==
    /\ inflight' = Append(inflight, m)
    /\ showCount' = showCount + 1
    /\ sentAfter' = [sentAfter EXCEPT ![m] = IF Cached(ctxCache[m]) THEN @ + 1 ELSE @]

\* new OllamaContentGenerator(config)
ConstructAdapter ==
    /\ phase = "ctxConfigured"
    /\ Len(adapters) < MaxAdapters
    /\ \E m \in Models, limit \in ContextLimits :
          LET a == [model |-> m, contextLimit |-> limit]
          IN  /\ adapters' = Append(adapters, a)
              /\ IF HasContextLimit(a)
                 THEN /\ ctxCache' = [ctxCache EXCEPT ![m] = Num(limit)]
                      /\ lastShow' = [lastShow EXCEPT ![m] = "override"]
                      /\ completed' = [completed EXCEPT ![m] = TRUE]
                      /\ UNCHANGED <<inflight, showCount, sentAfter>>
                 ELSE /\ showCount < MaxShowRequests
                      /\ QueryShow(m)
                      /\ UNCHANGED <<ctxCache, lastShow, completed>>
    /\ UNCHANGED <<fromShow, batch>>
    /\ CtxFrame

\* ensureContextLengthInitialized of an adapter: nothing when the cache holds
\* a value; otherwise initializeContextLength, which takes the configured
\* limit when there is one and asks /api/show when there is none
EnsureContextLength ==
    /\ phase = "ctxConfigured"
    /\ \E k \in 1..Len(adapters) :
          LET a == adapters[k]
              m == a.model
          IN  IF Cached(ctxCache[m])
              THEN UNCHANGED <<ctxCache, inflight, showCount, sentAfter, lastShow, completed>>
              ELSE IF HasContextLimit(a)
              THEN /\ ctxCache' = [ctxCache EXCEPT ![m] = Num(a.contextLimit)]
                   /\ lastShow' = [lastShow EXCEPT ![m] = "override"]
                   /\ completed' = [completed EXCEPT ![m] = TRUE]
                   /\ UNCHANGED <<inflight, showCount, sentAfter>>
              ELSE /\ showCount < MaxShowRequests
                   /\ QueryShow(m)
                   /\ UNCHANGED <<ctxCache, lastShow, completed>>
    /\ UNCHANGED <<adapters, fromShow, batch>>
    /\ CtxFrame

\* a request to /api/show ends: getContextLength returns and
\* initializeContextLength writes the cache.  The ghost fromShow records
\* that the write replaced a value the cache held
ShowAnswers ==
    /\ phase = "ctxConfigured"
    /\ \E k \in 1..Len(inflight), o \in ShowOutcomes :
          LET m == inflight[k]
          IN  /\ inflight' = SubSeq(inflight, 1, k - 1) \o SubSeq(inflight, k + 1, Len(inflight))
              /\ ctxCache' = [ctxCache EXCEPT ![m] = getContextLength(o)]
              /\ fromShow' = [fromShow EXCEPT ![m] = @ \/ Cached(ctxCache[m])]
              /\ completed' = [completed EXCEPT ![m] = TRUE]
              /\ lastShow' = [lastShow EXCEPT ![m] = o.how]
    /\ UNCHANGED <<adapters, showCount, sentAfter, batch>>
    /\ CtxFrame

NextCtxConfigured == ConstructAdapter \/ EnsureContextLength \/ ShowAnswers

SpecCtxConfigured == InitCtxConfigured /\ [][NextCtxConfigured]_vars

\* C32: context-length resolution takes the configured override for the
\* model when there is one, otherwise the cached value, otherwise the value
\* of a live /api/show query; a live query is sent only when neither an
\* override nor a cached value exists.
C32_OverrideThenCacheThenQuery ==
    phase = "ctxConfigured" =>
        \A m \in Models :
            \* no query is sent, and no answer written, over a cached value
            /\ sentAfter[m] = 0
            /\ ~fromShow[m]
            \* a resolution that took the override left it in the cache
            /\ (lastShow[m] = "override" => ctxCache[m] \in {Num(l) : l \in ContextLimits \ {0}})

-----------------------------------------------------------------------------
(* The context-length cache of ollamaTokenLimits by itself: a Map from     *)
(* model names to numbers, with its set, get and clear functions called in *)
(* any order.  ctxCache is the Map (Undefined for a model without entry);  *)
(* the ghosts record, per model, whether an entry has been set since the   *)
(* last clear (completed), the value last set (batch), the result of the   *)
(* latest get (lastShow) and whether an entry existed at that get          *)
(* (fromShow).                                                             *)

\* the numbers callers store: context lengths, and what parseInt gives for
\* a string it cannot read
CacheValues == {Num(2048), Num(32768), NaN}

\* a set that drops the entries of the other models (a faulty variant)
setOllamaModelContextLengthOnly(cache, modelName, len) ==
    [m \in Models |-> IF m = modelName THEN len ELSE Undefined]
\* setOllamaModelContextLength: ollamaContextLengthCache.set(...)
setOllamaModelContextLength(cache, modelName, len) ==
    [cache EXCEPT ![modelName] = len]

\* getOllamaModelContextLength: ollamaContextLengthCache.get(modelName)
getOllamaModelContextLength(cache, modelName) == cache[modelName]

\* clearOllamaContextLengthCache: ollamaContextLengthCache.clear()
clearOllamaContextLengthCache == [m \in Models |-> Undefined]

InitCache ==
    /\ phase = "cache"
    /\ ctxCache = clearOllamaContextLengthCache
    /\ adapters = <<>>
    /\ inflight = <<>>
    /\ showCount = 0
    /\ fromShow = [m \in Models |-> FALSE]
    /\ sentAfter = [m \in Models |-> 0]
    /\ completed = [m \in Models |-> FALSE]
    /\ lastShow = [m \in Models |-> Undefined]
    /\ batch = [m \in Models |-> {}]
    /\ CtxOthersIdle

CacheGhosts == UNCHANGED <<adapters, inflight, showCount, sentAfter>>

\* a call of setOllamaModelContextLength
SetContextLength ==
    /\ phase = "cache"
    /\ \E m \in Models, v \in CacheValues :
          /\ ctxCache' = setOllamaModelContextLength(ctxCache, m, v)
          /\ completed' = [completed EXCEPT ![m] = TRUE]
          /\ batch' = [batch EXCEPT ![m] = {v}]
    /\ UNCHANGED <<lastShow, fromShow>>
    /\ CacheGhosts
    /\ CtxFrame

\* a call of getOllamaModelContextLength
GetContextLength ==
    /\ phase = "cache"
    /\ \E m \in Models :
          /\ lastShow' = [lastShow EXCEPT ![m] = getOllamaModelContextLength(ctxCache, m)]
          /\ fromShow' = [fromShow EXCEPT ![m] = completed[m]]
    /\ UNCHANGED <<ctxCache, completed, batch>>
    /\ CacheGhosts
    /\ CtxFrame

\* a call of clearOllamaContextLengthCache
ClearCache ==
    /\ phase = "cache"
    /\ ctxCache' = clearOllamaContextLengthCache
    /\ completed' = [m \in Models |-> FALSE]
    /\ batch' = [m \in Models |-> {}]
    /\ UNCHANGED <<lastShow, fromShow>>
    /\ CacheGhosts
    /\ CtxFrame

NextCache == SetContextLength \/ GetContextLength \/ ClearCache

SpecCache == InitCache /\ [][NextCache]_vars

\* C34: once a model has an entry in the context-length cache, every later
\* read returns a value for that model until clearOllamaContextLengthCache
\* is called, under any sequence of set and get operations; a write for one
\* model never changes or removes the entry of another model.
C34_EntriesStayUntilClear ==
    phase = "cache" =>
        \A m \in Models :
            \* a get made while the model had an entry returned a value
            /\ (fromShow[m] => lastShow[m] # Undefined)
            \* the entry is the value last set for this model
            /\ (completed[m] => ctxCache[m] \in batch[m])
            /\ (~completed[m] => ctxCache[m] = Undefined)

\* a model's entry has been read back after a write for the other model
C34_Witness ==
    /\ phase = "cache"
    /\ fromShow["m1"] /\ lastShow["m1"] = Num(32768)
    /\ ctxCache["m1"] = Num(32768)
    /\ ctxCache["m2"] = Num(2048)
    /\ fromShow["m2"] /\ lastShow["m2"] = Num(2048)

-----------------------------------------------------------------------------
(* Model discovery: extractContextLength                                   *)

\* the digits of the decimal notation
DigitChars == <<"0", "1", "2", "3", "4", "5", "6", "7", "8", "9">>

RECURSIVE Decimal(_)
\* the decimal notation of a natural number, as a text
Decimal(n) ==
    IF n < 10 THEN <<DigitChars[n + 1]>>
    ELSE Decimal(n \div 10) \o <<DigitChars[(n % 10) + 1]>>

\* String.prototype.includes
Includes(t, sub) ==
    \E i \in 1..(Len(t) - Len(sub) + 1) : SubSeq(t, i, i + Len(sub) - 1) = sub

\* details.parameter_size: the parameter count in billions followed by the
\* letter b in either case, or the empty string (billions 0) when the
\* backend gives none
ParameterCounts == {1, 3, 7, 8, 13, 14, 27, 34, 70, 72, 405}
ParameterSizes ==
    { [billions |-> 0, text |-> <<>>] }
    \cup { [billions |-> n, text |-> Decimal(n) \o <<b>>] :
             n \in ParameterCounts, b \in {"b", "B"} }

\* what the modelfile says: no PARAMETER num_ctx line (0 digits), or one
\* with this number
NumCtxParameters ==
    { [present |-> FALSE, n |-> 0], [present |-> TRUE, n |-> 0],
      [present |-> TRUE, n |-> 2048] }

\* the /api/show responses handed to extractContextLength
ModelInfos ==
    [ info : InfoValues \cup {NoInfo},
      numCtx : NumCtxParameters,
      size : ParameterSizes ]

\* the first loop: a model_info key ending in 'context_length' whose value
\* is, or parses to, a positive number
MetadataLength(mi) ==
    IF mi.info.type = "none" THEN NaN
    ELSE IF mi.info.type = "number" THEN Num(mi.info.n)
    ELSE ParseInt(mi.info)

\* the second step: PARAMETER num_ctx <digits> in the modelfile
ModelfileLength(mi) == IF mi.numCtx.present THEN Num(mi.numCtx.n) ELSE NaN

\* !isNaN(contextLength) && contextLength > 0
PositiveNumber(v) == v.kind = "number" /\ v.n > 0

\* the fallback on details.parameter_size
SizeFallback(parameterSize) ==
    IF Includes(parameterSize, <<"7", "0", "b">>) \/ Includes(parameterSize, <<"7", "2", "b">>)
    THEN 32768
    ELSE IF Includes(parameterSize, <<"1", "3", "b">>) \/ Includes(parameterSize, <<"3", "4", "b">>)
    THEN 16384
    ELSE IF Includes(parameterSize, <<"7", "b">>) \/ Includes(parameterSize, <<"8", "b">>)
    THEN 8192
    ELSE 4096

\* extractContextLength
extractContextLength(mi) ==
    IF PositiveNumber(MetadataLength(mi)) THEN MetadataLength(mi).n
    ELSE IF PositiveNumber(ModelfileLength(mi)) THEN ModelfileLength(mi).n
    ELSE SizeFallback(mi.size.text)

InitDisc ==
    /\ phase = "disc"
    /\ modelInfo \in ModelInfos
    /\ contextLength = 0
    /\ discPc = "ready"
    /\ DiscOthersIdle

\* one call of extractContextLength
ExtractContextLength ==
    /\ phase = "disc"
    /\ discPc = "ready"
    /\ contextLength' = extractContextLength(modelInfo)
    /\ discPc' = "done"
    /\ UNCHANGED modelInfo
    /\ DiscFrame

NextDisc == ExtractContextLength

SpecDisc == InitDisc /\ [][NextDisc]_vars

\* the tier of a parameter count, in billions
SizeTier(billions) ==
    IF billions >= 70 THEN 32768
    ELSE IF billions >= 13 /\ billions <= 34 THEN 16384
    ELSE IF billions >= 7 /\ billions <= 8 THEN 8192
    ELSE 4096

\* neither the model metadata nor the modelfile gives a context length
NoLengthGiven(mi) ==
    ~PositiveNumber(MetadataLength(mi)) /\ ~PositiveNumber(ModelfileLength(mi))

\* C33: when neither the model metadata nor the model file gives a context
\* length, extractContextLength returns 32768 for every model of 70B
\* parameters or more, 16384 for 13B to 34B, 8192 for 7B to 8B, and 4096 for
\* every other size.
C33_TierBySize ==
    (phase = "disc" /\ discPc = "done" /\ NoLengthGiven(modelInfo)) =>
        contextLength = SizeTier(modelInfo.size.billions)

-----------------------------------------------------------------------------
(* The generation options of the requests generateContent sends *)

\* Math.max
Max(a, b) == IF a > b THEN a ELSE b

\* C36: the num_ctx sent with every generation request equals
\* max(c, 1024), where c is the configured request context size, or 8192
\* when none is configured; no upper bound is applied.
C36_FloorOfConfiguredSize ==
    phase = "call" =>
        \A k \in 1..Len(sent) :
            sent[k].num_ctx =
                Max(IF config.requestContextSizeSet THEN config.requestContextSize
                    ELSE DefaultRequestContextSize,
                    MinRequestContextSize)

\* C37: the temperature sent with every generation request equals the
\* configured temperature whenever one is configured, including 0, and is
\* 0.7 only when none is configured.
C37_ConfiguredTemperatureSent ==
    phase = "call" =>
        \A k \in 1..Len(sent) :
            sent[k].temperature =
                (IF config.temperatureSet THEN config.temperature
                 ELSE DefaultTemperatureTenths)

-----------------------------------------------------------------------------
(* The end of a streamed response *)

\* the sequence has ended because the body ended
EndedAtEof == phase = "stream" /\ streamPc = "done" /\ streamExit = "eof"

\* C38: for every stream that the backend ends with a record whose done flag
\* is true, the consumer receives an event whose finish reason is STOP
\* before the sequence ends.  (Bodies whose last line ends with a newline,
\* so that the last record is handled at all.)
C38_StopEventDelivered ==
    (/\ EndedAtEof /\ terminated
     /\ Len(streamBody) > 0
     /\ streamBody[Len(streamBody)] \in {"textDone", "emptyDone"}) =>
        \E k \in 1..Len(events) : events[k].resp.finishReason = "STOP"

\* C39: when the transport signals end-of-stream while the decoder's buffer
\* holds a complete JSON record that has no trailing newline, that record is
\* decoded and yielded before the sequence ends; no received record is lost
\* in the buffer.
C39_BufferFlushedAtEof ==
    EndedAtEof =>
        \* no complete record is left in the buffer
        /\ ~Parses(buffer)
        \* the last record of a body without final newline has its event
        /\ (/\ ~terminated /\ ~doneSeen
            /\ streamBody[Len(streamBody)] # "bad"
            /\ YieldsEvent(streamApi, RecordOf(streamBody[Len(streamBody)], Len(streamBody))))
              => \E k \in 1..Len(events) : events[k].src = Len(streamBody)

=============================================================================
